---- MODULE Spec2Model ----
(***************************************************************************)
(* Model of the multi-agent routing loop: run_agent (main.py) streams the  *)
(* compiled graph (graph.py), whose nodes are supervisor_node              *)
(* (supervisor.py) and one agent_node per agent (agents.py); agent nodes   *)
(* invoke the tools of tools.py.  The shared state is AgentState           *)
(* (state.py): messages, next_agent, task_context, intermediate_results.   *)
(*                                                                         *)
(* Text is modelled as a sequence of characters wherever the code looks    *)
(* inside it (paths), and as an opaque string otherwise.  A message        *)
(* content is a sequence of parts; the parts of an agent summary are its   *)
(* header line and one line per recorded tool result.                      *)
(***************************************************************************)
EXTENDS Integers, Sequences, FiniteSets, TLC

VARIABLES
    openai_api_key,        \* config.openai_api_key
    status,                \* position of run_agent: init, streaming, returned, raised
    node,                  \* next node of the compiled graph
    messages,              \* AgentState.messages
    next_agent,            \* AgentState.next_agent
    task_context,          \* AgentState.task_context
    intermediate_results,  \* AgentState.intermediate_results
    final_state,           \* last chunk yielded by workflow.astream
    decision,              \* the RouterDecision supervisor_node decoded last
    returned,              \* value run_agent returned
    error,                 \* exception that left run_agent, "" when none
    trace,                 \* turns executed so far: the node, the identifier the
                           \* routing model produced, whether the node raised,
                           \* the tool calls the agent's model asked for
    invoked,               \* tools invoked so far, with the agent that did
    fs_ops                 \* file-system operations the file tools performed

vars == <<openai_api_key, status, node, messages, next_agent, task_context,
          intermediate_results, final_state, decision, returned, error, trace,
          invoked, fs_ops>>

(***************************************************************************)
(* Bounds of the model.                                                    *)
(***************************************************************************)
MaxTurns == 2      \* agent turns per request
MaxCalls == 2      \* tool calls the model responses of one request ask for

(***************************************************************************)
(* Identifiers.                                                            *)
(***************************************************************************)
FINISH == "FINISH"
END == "__end__"
SUPERVISOR == "supervisor"

\* state.py: AGENTS without the sentinel, i.e. the keys of AGENT_NODES
AGENT_NODES == {"research", "code", "files", "database", "api"}

\* state.py: AGENTS
AGENTS == AGENT_NODES \cup {FINISH}

Queries == {"What is 2+2?", "write /x"}
Reasons == {"r1", "r2"}
ApiKeys == {"", "sk-key"}

\* identifiers the routing model may produce; "planner" is not an agent
RawDecisions == AGENTS \cup {"planner"}

(***************************************************************************)
(* Text helpers.                                                           *)
(***************************************************************************)
\* str.startswith
StartsWith(s, prefix) ==
    /\ Len(prefix) <= Len(s)
    /\ SubSeq(s, 1, Len(prefix)) = prefix

\* str.split("/"), on a sequence of characters
RECURSIVE SplitRec(_, _, _, _)
SplitRec(p, i, cur, acc) ==
    IF i > Len(p) THEN Append(acc, cur)
    ELSE IF p[i] = "/" THEN SplitRec(p, i + 1, <<>>, Append(acc, cur))
    ELSE SplitRec(p, i + 1, Append(cur, p[i]), acc)

Split(p) == SplitRec(p, 1, <<>>, <<>>)

\* os.path.normpath of an absolute path, on its components: empty and "."
\* components vanish, ".." removes the component before it
RECURSIVE NormRec(_, _, _)
NormRec(segs, i, acc) ==
    IF i > Len(segs) THEN acc
    ELSE IF segs[i] = <<>> \/ segs[i] = <<".">> THEN NormRec(segs, i + 1, acc)
    ELSE IF segs[i] = <<".", ".">>
         THEN NormRec(segs, i + 1,
                      IF Len(acc) = 0 THEN acc ELSE SubSeq(acc, 1, Len(acc) - 1))
    ELSE NormRec(segs, i + 1, Append(acc, segs[i]))

RECURSIVE JoinRec(_, _)
JoinRec(segs, i) ==
    IF i > Len(segs) THEN <<>>
    ELSE <<"/">> \o segs[i] \o JoinRec(segs, i + 1)

\* the process's working directory, os.getcwd()
Cwd == <<"/", "r">>

\* os.path.abspath
abspath(path) ==
    LET full == IF Len(path) > 0 /\ path[1] = "/" THEN path
                ELSE Cwd \o <<"/">> \o path
        segs == NormRec(Split(full), 1, <<>>)
    IN  IF Len(segs) = 0 THEN <<"/">> ELSE JoinRec(segs, 1)

(***************************************************************************)
(* config.py                                                               *)
(***************************************************************************)
\* Config.allowed_file_path: ALLOWED_FILE_PATH, by default os.getcwd()
allowed_file_path == Cwd

\* a validate that reports nothing missing
validate_nothing_missing(key) == <<>>

\* Config.validate: the list of missing keys
validate(key) == IF key = "" THEN <<"OPENAI_API_KEY">> ELSE <<>>

(***************************************************************************)
(* tools.py                                                                *)
(***************************************************************************)
None == "None"
OutsideAllowed == "Error: Path is outside allowed directory"

\* _validate_path: an error message, or None
_validate_path(path) ==
    IF ~StartsWith(abspath(path), abspath(allowed_file_path))
    THEN OutsideAllowed
    ELSE None

FILE_TOOLS == <<"read_file", "write_file", "list_directory">>

AGENT_TOOLS ==
    [a \in AGENT_NODES |->
        CASE a = "research" -> <<"tavily_search">>
          [] a = "code"     -> <<"execute_python">>
          [] a = "files"    -> FILE_TOOLS
          [] a = "database" -> <<"execute_sql">>
          [] a = "api"      -> <<"http_request">>]

ToolNames == {"tavily_search", "execute_python", "read_file", "write_file",
              "list_directory", "execute_sql", "http_request"}

\* One file tool: the path check, then the file-system operation.
\* fs lists the file-system operations the call performed.
FileTool(op, path, done) ==
    IF _validate_path(path) # None
    THEN [raised |-> FALSE, value |-> _validate_path(path), fs |-> <<>>]
    ELSE [raised |-> FALSE, value |-> done,
          fs |-> <<[op |-> op, path |-> path]>>]

\* tool.invoke(tool_args) for the tool called name.  env is what the world does
\* to this call: "ok", "timeout" (the subprocess or the HTTP call exceeds its
\* timeout) or "raise" (tool.invoke raises, e.g. the arguments do not fit the
\* tool's schema).
Invoke(name, args, env) ==
    IF env = "raise"
    THEN [raised |-> TRUE, value |-> "validation error", fs |-> <<>>]
    ELSE CASE name = "tavily_search" ->
                [raised |-> FALSE, value |-> "No results found.", fs |-> <<>>]
           [] name = "execute_python" ->
                [raised |-> FALSE,
                 value |-> IF env = "timeout"
                           THEN "Error: Code execution timed out"
                           ELSE "STDOUT: 4",
                 fs |-> <<>>]
           [] name = "read_file" -> FileTool("read", args, "file contents")
           [] name = "write_file" -> FileTool("write", args, "Successfully wrote")
           [] name = "list_directory" -> FileTool("list", args, "Directory is empty")
           [] name = "execute_sql" ->
                [raised |-> FALSE, value |-> "Query executed successfully",
                 fs |-> <<>>]
           [] name = "http_request" ->
                [raised |-> FALSE,
                 value |-> IF env = "timeout"
                           THEN "Error: Request timed out"
                           ELSE "Status: 200",
                 fs |-> <<>>]

(***************************************************************************)
(* Messages.  A message is [id, type, content]; id 0 is a message that has *)
(* no id yet.  A content is a sequence of parts [kind, tool, text].        *)
(***************************************************************************)
Text(t) == <<[kind |-> "text", tool |-> "", text |-> t]>>

\* HumanMessage(content=...), AIMessage(content=...): no id until merged
HumanMessage(content) == [id |-> 0, type |-> "human", content |-> content]
AIMessage(content) == [id |-> 0, type |-> "ai", content |-> content]

RECURSIVE MaxId(_, _)
MaxId(msgs, i) ==
    IF i > Len(msgs) THEN 0
    ELSE LET rest == MaxId(msgs, i + 1)
         IN  IF msgs[i].id > rest THEN msgs[i].id ELSE rest

\* an id no message of msgs carries (a new uuid, a new response id)
FreshId(msgs) == MaxId(msgs, 1) + 1

\* position of the message of msgs with this id, 0 when there is none
RECURSIVE IndexOfId(_, _, _)
IndexOfId(msgs, id, i) ==
    IF i > Len(msgs) THEN 0
    ELSE IF msgs[i].id = id THEN i
    ELSE IndexOfId(msgs, id, i + 1)

\* langgraph add_messages, the reducer of AgentState.messages: a message whose
\* id is already in the list replaces that message in place, any other message
\* is appended; a message without id gets a new one
RECURSIVE add_messages_rec(_, _, _)
add_messages_rec(left, right, i) ==
    IF i > Len(right) THEN left
    ELSE LET m == IF right[i].id = 0
                  THEN [right[i] EXCEPT !.id = FreshId(left)]
                  ELSE right[i]
             at == IndexOfId(left, m.id, 1)
         IN  add_messages_rec(IF at = 0 THEN Append(left, m)
                              ELSE [left EXCEPT ![at] = m],
                              right, i + 1)

\* a messages field without reducer: the returned list replaces the history
add_messages_overwrite(left, right) == right

add_messages(left, right) == add_messages_rec(left, right, 1)

(***************************************************************************)
(* agents.py: agent_node                                                   *)
(***************************************************************************)
\* agent_name.upper()
Upper(agent_name) ==
    CASE agent_name = "research" -> "RESEARCH"
      [] agent_name = "code"     -> "CODE"
      [] agent_name = "files"    -> "FILES"
      [] agent_name = "database" -> "DATABASE"
      [] agent_name = "api"      -> "API"

\* a search that falls back to the first bound tool when no name matches
RECURSIVE FindToolFirstOnMiss(_, _, _)
FindToolFirstOnMiss(tools, tool_name, j) ==
    IF j > Len(tools) THEN 1
    ELSE IF tools[j] = tool_name THEN j
    ELSE FindToolFirstOnMiss(tools, tool_name, j + 1)

\* the inner loop "for tool in tools: if tool.name == tool_name": position of
\* the first bound tool with that name, 0 when the loop ends without a match
RECURSIVE FindTool(_, _, _)
FindTool(tools, tool_name, j) ==
    IF j > Len(tools) THEN 0
    ELSE IF tools[j] = tool_name THEN j
    ELSE FindTool(tools, tool_name, j + 1)

\* the entry one executed tool call appends to tool_results
ToolResult(tool_call, out) ==
    IF out.raised
    THEN [tool |-> tool_call.name, args |-> tool_call.args, error |-> out.value]
    ELSE [tool |-> tool_call.name, args |-> tool_call.args, result |-> out.value]

\* a loop over response.tool_calls that ends at the first call that raises
RECURSIVE RunToolCallsStopOnError(_, _, _, _, _)
RunToolCallsStopOnError(tools, tool_calls, envs, i, acc) ==
    IF i > Len(tool_calls) THEN acc
    ELSE LET tc == tool_calls[i]
             j == FindTool(tools, tc.name, 1)
             out == Invoke(tools[j], tc.args, envs[i])
             more == [tool_results |-> Append(acc.tool_results, ToolResult(tc, out)),
                      invoked |-> Append(acc.invoked, [tool |-> tools[j], args |-> tc.args]),
                      fs |-> acc.fs \o out.fs]
         IN  IF j = 0
             THEN RunToolCallsStopOnError(tools, tool_calls, envs, i + 1, acc)
             ELSE IF out.raised THEN more
             ELSE RunToolCallsStopOnError(tools, tool_calls, envs, i + 1, more)

\* the loop over response.tool_calls: tool_results, the tools invoked and the
\* file-system operations they performed, from call i on
RECURSIVE RunToolCalls(_, _, _, _, _)
RunToolCalls(tools, tool_calls, envs, i, acc) ==
    IF i > Len(tool_calls) THEN acc
    ELSE LET tc == tool_calls[i]
             j == FindTool(tools, tc.name, 1)
             out == Invoke(tools[j], tc.args, envs[i])
         IN  IF j = 0
             THEN RunToolCalls(tools, tool_calls, envs, i + 1, acc)
             ELSE RunToolCalls(tools, tool_calls, envs, i + 1,
                    [tool_results |-> Append(acc.tool_results, ToolResult(tc, out)),
                     invoked |-> Append(acc.invoked, [tool |-> tools[j], args |-> tc.args]),
                     fs |-> acc.fs \o out.fs])

NoCalls == [tool_results |-> <<>>, invoked |-> <<>>, fs |-> <<>>]

\* one line of result_summary
SummaryLine(tr) ==
    IF "error" \in DOMAIN tr
    THEN [kind |-> "failed", tool |-> tr.tool, text |-> tr.error]
    ELSE [kind |-> "result", tool |-> tr.tool, text |-> tr.result]

\* result_summary: the header and one line per entry of tool_results
ResultSummary(agent_name, tool_results) ==
    <<[kind |-> "header", tool |-> "", text |-> Upper(agent_name)]>>
    \o [k \in 1..Len(tool_results) |-> SummaryLine(tool_results[k])]

\* new_results started from an empty list instead of a copy of the state's
NewResultsOnlyThisTurn(agent_name, results, tool_results) ==
    <<[agent |-> agent_name, tool_results |-> tool_results]>>

\* new_results: a copy of the state's intermediate_results plus this turn's record
NewResults(agent_name, results, tool_results) ==
    Append(results, [agent |-> agent_name, tool_results |-> tool_results])

\* an agent_node that returns one message per tool result instead of a summary
AgentDeltaMessagePerResult(agent_name, results, response, ran) ==
    IF Len(response.tool_calls) > 0
    THEN [messages |->
              [k \in 1..Len(ran.tool_results) |->
                  AIMessage(<<SummaryLine(ran.tool_results[k])>>)],
          intermediate_results |->
              Append(results, [agent |-> agent_name, tool_results |-> ran.tool_results])]
    ELSE [messages |-> <<[id |-> response.id, type |-> "ai",
                          content |-> Text(response.text)]>>]

\* an agent_node that appends a record whether or not tools were asked for
AgentDeltaAlwaysRecords(agent_name, results, response, ran) ==
    [messages |->
        IF Len(response.tool_calls) > 0
        THEN <<AIMessage(ResultSummary(agent_name, ran.tool_results))>>
        ELSE <<[id |-> response.id, type |-> "ai", content |-> Text(response.text)]>>,
     intermediate_results |->
        Append(results, [agent |-> agent_name, tool_results |-> ran.tool_results])]

\* an agent_node whose dictionary also sets next_agent
AgentDeltaSetsRouting(agent_name, results, response, ran) ==
    IF Len(response.tool_calls) > 0
    THEN [messages |-> <<AIMessage(ResultSummary(agent_name, ran.tool_results))>>,
          intermediate_results |->
              Append(results, [agent |-> agent_name, tool_results |-> ran.tool_results]),
          next_agent |-> FINISH]
    ELSE [messages |-> <<[id |-> response.id, type |-> "ai",
                          content |-> Text(response.text)]>>,
          next_agent |-> FINISH]

\* the dictionary agent_node returns; response is the model's reply
\* [id, text, tool_calls], ran is what RunToolCalls produced for it
AgentDelta(agent_name, results, response, ran) ==
    IF Len(response.tool_calls) > 0
    THEN [messages |-> <<AIMessage(ResultSummary(agent_name, ran.tool_results))>>,
          intermediate_results |-> NewResults(agent_name, results, ran.tool_results)]
    ELSE [messages |-> <<[id |-> response.id, type |-> "ai",
                          content |-> Text(response.text)]>>]

(***************************************************************************)
(* supervisor.py: supervisor_node                                          *)
(***************************************************************************)
\* a RouterDecision whose next_agent is a plain str: nothing is rejected
RouterDecisionAnyStr(raw) == raw

\* RouterDecision: with_structured_output validates next_agent against the
\* Literal; a value outside it makes ainvoke raise
RouterDecision(raw) == IF raw \in AGENTS THEN raw ELSE "ValidationError"

\* a new_context that keeps a rationale already there (setdefault)
NewContextKeepsFirst(context, reasoning) ==
    [k \in DOMAIN context \cup {"last_routing_reason"} |->
        IF k \in DOMAIN context THEN context[k] ELSE reasoning]

\* a new_context built from scratch instead of from a copy of task_context
NewContextFresh(context, reasoning) == [last_routing_reason |-> reasoning]

\* new_context: a copy of task_context with last_routing_reason set
NewContext(context, reasoning) ==
    [k \in DOMAIN context \cup {"last_routing_reason"} |->
        IF k = "last_routing_reason" THEN reasoning ELSE context[k]]

\* a supervisor_node that also returns its reasoning as a message
SupervisorDeltaWithMessage(next, reasoning, context) ==
    [next_agent |-> next, task_context |-> NewContext(context, reasoning),
     messages |-> <<AIMessage(Text(reasoning))>>]

\* the dictionary supervisor_node returns
SupervisorDelta(next, reasoning, context) ==
    [next_agent |-> next, task_context |-> NewContext(context, reasoning)]

(***************************************************************************)
(* graph.py                                                                *)
(***************************************************************************)
\* a route_to_agent that also ends the graph on one of the agents
route_to_agent_research_ends(next) ==
    IF next = FINISH \/ next = "research" THEN END ELSE next

\* a route_to_agent that never ends the graph
route_to_agent_no_end(next) == next

\* route_to_agent
route_to_agent(next) == IF next = FINISH THEN END ELSE next

\* a mapping of add_conditional_edges with two targets exchanged
PathMapCrossed ==
    [k \in AGENT_NODES \cup {END} |->
        IF k = "research" THEN "code" ELSE IF k = "code" THEN "research" ELSE k]

\* the mapping of add_conditional_edges; a key outside it is an error
PathMap == [k \in AGENT_NODES \cup {END} |-> k]

\* langgraph applies a node's dictionary to the state: messages goes through
\* its reducer, every other key it names is overwritten, the rest is kept
MergeMessages(cur, delta) ==
    IF "messages" \in DOMAIN delta THEN add_messages(cur, delta.messages) ELSE cur

MergeKey(cur, delta, key) ==
    IF key \in DOMAIN delta THEN delta[key] ELSE cur

(***************************************************************************)
(* main.py: run_agent                                                      *)
(***************************************************************************)
NoResponse == Text("No response generated")
MissingConfiguration == Text("Error: Missing required configuration: OPENAI_API_KEY")

\* the loop over final_state.values() after the stream ended
ExtractResponse(chunk) ==
    LET msgs == IF "messages" \in DOMAIN chunk.output
                THEN chunk.output.messages ELSE <<>>
    IN  IF Len(msgs) > 0 THEN msgs[Len(msgs)].content ELSE NoResponse

\* The inputs of the model: what the language model and the world answer.
\* A response of an agent may ask for its own tools and for one it lacks.
Foreign(agent) == IF agent = "files" THEN "execute_python" ELSE "write_file"
RequestNames(agent) ==
    {AGENT_TOOLS[agent][j] : j \in 1..Len(AGENT_TOOLS[agent])} \cup {Foreign(agent)}

InsidePath == <<"/", "r", "/", "a">>
OutsidePath == <<"/", "x">>
\* a sibling of the allowed directory whose name begins with its name
SiblingPath == <<"/", "r", "_">>
FilePaths == {InsidePath, OutsidePath, SiblingPath}

ArgsOf(agent, name) ==
    IF name = Foreign(agent) THEN {<<"a">>}
    ELSE IF name \in {"read_file", "write_file", "list_directory"} THEN FilePaths
    ELSE {<<"a">>}

\* what the world does to a call: "ok", "timeout" (the subprocess or the HTTP
\* call exceeds its timeout) or "raise" (tool.invoke raises, e.g. the
\* arguments do not fit the tool's schema)
EnvsOf(agent, name) ==
    IF name = Foreign(agent) THEN {"ok"}
    ELSE IF name \in {"execute_python", "http_request"} THEN {"ok", "timeout", "raise"}
    ELSE IF name \in {"read_file", "write_file", "list_directory"} THEN {"ok"}
    ELSE {"ok", "raise"}

\* the requests one response of this agent is made of: a tool call and the
\* world's answer to it
RequestsOf(agent) ==
    UNION {UNION {{[name |-> n, args |-> a, env |-> e] : e \in EnvsOf(agent, n)}
                  : a \in ArgsOf(agent, n)}
           : n \in RequestNames(agent)}

\* tool_call["name"], tool_call["args"] of the requests
ToolCalls(requests) ==
    [i \in 1..Len(requests) |-> [name |-> requests[i].name, args |-> requests[i].args]]

Envs(requests) == [i \in 1..Len(requests) |-> requests[i].env]

RECURSIVE CallsRequested(_, _)
CallsRequested(tr, i) ==
    IF i > Len(tr) THEN 0 ELSE Len(tr[i].requests) + CallsRequested(tr, i + 1)

AgentTurns(tr) == Cardinality({i \in 1..Len(tr) : tr[i].node \in AGENT_NODES})

Init ==
    /\ openai_api_key \in ApiKeys
    /\ status = "init"
    /\ node = "None"
    /\ messages = <<>>
    /\ next_agent = ""
    /\ task_context = [k \in {} |-> ""]
    /\ intermediate_results = <<>>
    /\ final_state = [node |-> "None", output |-> [k \in {} |-> ""]]
    /\ decision = [next_agent |-> "", reasoning |-> ""]
    /\ returned = <<>>
    /\ error = ""
    /\ trace = <<>>
    /\ invoked = <<>>
    /\ fs_ops = <<>>

\* run_agent up to the first step of the stream: the configuration check and
\* initial_state, which the graph takes in through the reducers
RunAgent ==
    /\ status = "init"
    /\ \E query \in Queries :
         IF Len(validate(openai_api_key)) > 0
         THEN /\ status' = "returned"
              /\ returned' = MissingConfiguration
              /\ UNCHANGED <<node, messages, next_agent, task_context,
                             intermediate_results>>
         ELSE /\ status' = "streaming"
              /\ node' = SUPERVISOR
              /\ messages' = add_messages(<<>>, <<HumanMessage(Text(query))>>)
              /\ next_agent' = ""
              /\ task_context' = [original_query |-> query]
              /\ intermediate_results' = <<>>
              /\ UNCHANGED returned
    /\ UNCHANGED <<openai_api_key, final_state, decision, error, trace, invoked,
                   fs_ops>>

\* one step of the stream at the supervisor node: supervisor_node, the merge
\* of its dictionary, the conditional edge, and, when the edge leads to END,
\* the end of the stream and run_agent's return
SupervisorTurn ==
    /\ status = "streaming"
    /\ node = SUPERVISOR
    /\ \E raw \in RawDecisions, reasoning \in Reasons :
         LET valid == RouterDecision(raw)
             delta == SupervisorDelta(valid, reasoning, task_context)
             target == route_to_agent(MergeKey(next_agent, delta, "next_agent"))
             chunk == [node |-> SUPERVISOR, output |-> delta]
         IN  /\ raw \in AGENT_NODES => AgentTurns(trace) < MaxTurns
             /\ IF valid = "ValidationError"
                THEN /\ status' = "raised"
                     /\ error' = "ValidationError"
                     /\ trace' = Append(trace, [node |-> SUPERVISOR, next |-> raw, raised |-> TRUE,
                                           requests |-> <<>>])
                     /\ UNCHANGED <<node, messages, next_agent, task_context,
                                    intermediate_results, final_state, decision,
                                    returned>>
                ELSE /\ decision' = [next_agent |-> valid, reasoning |-> reasoning]
                     /\ messages' = MergeMessages(messages, delta)
                     /\ next_agent' = MergeKey(next_agent, delta, "next_agent")
                     /\ task_context' = MergeKey(task_context, delta, "task_context")
                     /\ intermediate_results' =
                            MergeKey(intermediate_results, delta, "intermediate_results")
                     /\ trace' = Append(trace,
                                  [node |-> SUPERVISOR, next |-> raw, raised |-> FALSE,
                                   requests |-> <<>>])
                     /\ IF target \notin DOMAIN PathMap
                        THEN /\ status' = "raised"
                             /\ error' = "KeyError"
                             /\ UNCHANGED <<node, final_state, returned>>
                        ELSE /\ node' = PathMap[target]
                             /\ final_state' = chunk
                             /\ error' = error
                             /\ IF PathMap[target] = END
                                THEN /\ status' = "returned"
                                     /\ returned' = ExtractResponse(chunk)
                                ELSE UNCHANGED <<status, returned>>
    /\ UNCHANGED <<openai_api_key, invoked, fs_ops>>

\* one step of the stream at an agent node: agent_node, the merge of its
\* dictionary, and the edge back to the supervisor
AgentTurn(agent_name) ==
    /\ status = "streaming"
    /\ node = agent_name
    /\ \E n \in 0..(MaxCalls - CallsRequested(trace, 1)) :
       \E requests \in [1..n -> RequestsOf(agent_name)] :
         LET response == [id |-> FreshId(messages), text |-> "answer",
                          tool_calls |-> ToolCalls(requests)]
             ran == RunToolCalls(AGENT_TOOLS[agent_name], response.tool_calls,
                                 Envs(requests), 1, NoCalls)
             delta == AgentDelta(agent_name, intermediate_results, response, ran)
         IN  /\ messages' = MergeMessages(messages, delta)
             /\ next_agent' = MergeKey(next_agent, delta, "next_agent")
             /\ task_context' = MergeKey(task_context, delta, "task_context")
             /\ intermediate_results' =
                    MergeKey(intermediate_results, delta, "intermediate_results")
             /\ final_state' = [node |-> agent_name, output |-> delta]
             /\ invoked' = invoked \o
                    [k \in 1..Len(ran.invoked) |->
                        [agent |-> agent_name, tool |-> ran.invoked[k].tool,
                         args |-> ran.invoked[k].args]]
             /\ fs_ops' = fs_ops \o ran.fs
             /\ trace' = Append(trace,
                          [node |-> agent_name, next |-> "", raised |-> FALSE,
                           requests |-> requests])
    /\ node' = SUPERVISOR
    /\ UNCHANGED <<openai_api_key, status, decision, returned, error>>

Next ==
    \/ RunAgent
    \/ SupervisorTurn
    \/ \E agent_name \in AGENT_NODES : AgentTurn(agent_name)

Spec == Init /\ [][Next]_vars

(***************************************************************************)
(* The turn loop of the design, read off the model's state.                *)
(***************************************************************************)
ROUTING == status = "streaming" /\ node = SUPERVISOR
WORKING == status = "streaming" /\ node \in AGENT_NODES
DONE == status = "returned" /\ node = END

\* the request has a shared state: run_agent built initial_state
HasState == Len(messages) > 0

Last(seq) == seq[Len(seq)]

\* q is p followed by zero or more elements
IsPrefix(p, q) == Len(p) <= Len(q) /\ SubSeq(q, 1, Len(p)) = p

\* turn i was a supervisor turn that returned a decision
RouterReturned(tr, i) == tr[i].node = SUPERVISOR /\ ~tr[i].raised

(***************************************************************************)
(* C1: whenever the run is DONE, the value run_agent returned is the       *)
(* content of the last message of the accumulated history.  (Fails: the    *)
(* last chunk of the stream is the supervisor's, which carries no          *)
(* messages.)                                                              *)
(***************************************************************************)
C1_ReturnsLastMessage == DONE => returned = Last(messages).content

(***************************************************************************)
(* C2: the run is DONE exactly when the last turn executed is a supervisor *)
(* turn that returned FINISH, and a supervisor turn that returned FINISH   *)
(* is never followed by another turn.                                      *)
(***************************************************************************)
C2_DoneIffFinish ==
    /\ DONE <=> /\ Len(trace) > 0
                /\ RouterReturned(trace, Len(trace))
                /\ Last(trace).next = FINISH
    /\ node = END => DONE
    /\ \A i \in 1..Len(trace) :
         RouterReturned(trace, i) /\ trace[i].next = FINISH => i = Len(trace)

C2_Witness == DONE /\ Len(trace) = 5

(***************************************************************************)
(* C3, as claimed: in every shared state of a request, the initial one     *)
(* included, next_agent is an agent identifier or FINISH.  (Fails in the   *)
(* initial state, where it is the empty string.)                           *)
(***************************************************************************)
C3_AlwaysInAgents == HasState => next_agent \in AGENTS

(***************************************************************************)
(* C3, amended: next_agent is the empty string until the first supervisor  *)
(* turn has returned, and from then on an agent identifier or FINISH.      *)
(***************************************************************************)
C3_InAgentsAfterFirstRouting ==
    HasState =>
        IF \E i \in 1..Len(trace) : RouterReturned(trace, i)
        THEN next_agent \in AGENTS
        ELSE next_agent = ""

C3_Witness == HasState /\ Len(trace) >= 3 /\ next_agent \in AGENT_NODES

(***************************************************************************)
(* C4: a supervisor turn whose model produced an identifier outside AGENTS *)
(* raises (the design's RoutingFailure), it is the last turn of the        *)
(* request, the graph neither moves to an agent nor to END, and next_agent *)
(* never holds the identifier.                                             *)
(***************************************************************************)
C4_UnknownRouteRaises ==
    /\ \A i \in 1..Len(trace) :
         trace[i].node = SUPERVISOR /\ trace[i].next \notin AGENTS =>
            /\ i = Len(trace)
            /\ trace[i].raised
            /\ status = "raised"
            /\ error = "ValidationError"
            /\ node = SUPERVISOR
            /\ returned = <<>>
    /\ next_agent \in AGENTS \cup {""}

C4_Witness ==
    /\ status = "raised"
    /\ Len(trace) = 3
    /\ Last(trace).next \notin AGENTS

(***************************************************************************)
(* C5: messages is append-only: over every step the history before the     *)
(* step is a prefix of the history after it.                               *)
(***************************************************************************)
C5_HistoryAppendOnly == [][IsPrefix(messages, messages')]_vars

C5_Witness == Len(messages) = 3 /\ Len(trace) = 4

(***************************************************************************)
(* C6: intermediate_results is append-only: over every step the records    *)
(* before the step are an unchanged prefix of the records after it, and a  *)
(* supervisor turn leaves the field as it is.                              *)
(***************************************************************************)
C6_ResultsAppendOnly ==
    [][/\ IsPrefix(intermediate_results, intermediate_results')
       /\ node = SUPERVISOR => intermediate_results' = intermediate_results]_vars

C6_Witness == Len(intermediate_results) = 2

(***************************************************************************)
(* C7: an agent turn leaves next_agent as it was, whatever the model       *)
(* answered, and is one turn after which the graph is at the supervisor.   *)
(***************************************************************************)
C7_AgentKeepsRouting ==
    [][WORKING =>
          /\ next_agent' = next_agent
          /\ node' = SUPERVISOR
          /\ Len(trace') = Len(trace) + 1]_vars

C7_Witness ==
    /\ Len(trace) = 4
    /\ Last(trace).node \in AGENT_NODES
    /\ Len(Last(trace).requests) > 0
    /\ Len(trace[2].requests) = 0
    /\ next_agent = Last(trace).node

\* the agent has a tool of this name bound
BoundTo(agent_name, tool_name) == FindTool(AGENT_TOOLS[agent_name], tool_name, 1) # 0

(***************************************************************************)
(* C8: in an agent turn whose requested tool calls all name tools bound to *)
(* the agent, the turn's record has one entry per requested call, in       *)
(* order, an error entry exactly for the calls that raised, and the        *)
(* summary message has one line per call that names the tool and tells     *)
(* failure from result.                                                    *)
(***************************************************************************)
C8_EveryInvocationRecorded ==
    [][WORKING =>
        LET req == Last(trace').requests
            rec == Last(intermediate_results')
            msg == Last(messages')
        IN  (Len(req) >= 1 /\ \A i \in 1..Len(req) : BoundTo(node, req[i].name)) =>
              /\ Len(intermediate_results') = Len(intermediate_results) + 1
              /\ rec.agent = node
              /\ Len(rec.tool_results) = Len(req)
              /\ Len(msg.content) = Len(req) + 1
              /\ \A i \in 1..Len(req) :
                   /\ rec.tool_results[i].tool = req[i].name
                   /\ rec.tool_results[i].args = req[i].args
                   /\ "error" \in DOMAIN rec.tool_results[i] <=> req[i].env = "raise"
                   /\ msg.content[i + 1].tool = req[i].name
                   /\ msg.content[i + 1].kind =
                        IF req[i].env = "raise" THEN "failed" ELSE "result"]_vars

C8_Witness ==
    /\ Len(trace) > 0
    /\ Last(trace).node \in AGENT_NODES
    /\ Len(Last(trace).requests) = 2
    /\ Len(intermediate_results) > 0
    /\ LET trs == Last(intermediate_results).tool_results
       IN  /\ Len(trs) = 2
           /\ "error" \in DOMAIN trs[1]
           /\ "result" \in DOMAIN trs[2]
           /\ Last(messages).content[2].kind = "failed"
           /\ Last(messages).content[3].kind = "result"

(***************************************************************************)
(* C9: when an agent's model asks for a tool that is not bound to the      *)
(* agent, the turn's record has a "tool not found" error entry for that    *)
(* call and the summary message a failure line for it.  (Fails: the call   *)
(* leaves no entry and no line.)                                           *)
(***************************************************************************)
C9_MissingToolRecorded ==
    [][WORKING =>
        LET req == Last(trace').requests
            rec == Last(intermediate_results')
            msg == Last(messages')
        IN  \A i \in 1..Len(req) :
              ~BoundTo(node, req[i].name) =>
                /\ \E k \in 1..Len(rec.tool_results) :
                     /\ rec.tool_results[k].tool = req[i].name
                     /\ "error" \in DOMAIN rec.tool_results[k]
                     /\ rec.tool_results[k].error = "tool not found"
                /\ \E k \in 1..Len(msg.content) :
                     /\ msg.content[k].tool = req[i].name
                     /\ msg.content[k].kind = "failed"]_vars

(***************************************************************************)
(* C10: a write_file call of the files agent with a path outside the       *)
(* allowed directory is recorded as an error entry carrying the            *)
(* outside-allowed-directory reason.  (Fails: the reason is recorded as    *)
(* the call's result.)                                                     *)
(***************************************************************************)
C10_OutsideWriteIsFailure ==
    \A k \in 1..Len(intermediate_results) :
        LET rec == intermediate_results[k]
        IN  rec.agent = "files" =>
              \A j \in 1..Len(rec.tool_results) :
                 (/\ rec.tool_results[j].tool = "write_file"
                  /\ _validate_path(rec.tool_results[j].args) # None) =>
                     /\ "error" \in DOMAIN rec.tool_results[j]
                     /\ rec.tool_results[j].error = OutsideAllowed

\* the names of the tools bound to the agent
ToolsOf(agent_name) ==
    {AGENT_TOOLS[agent_name][j] : j \in 1..Len(AGENT_TOOLS[agent_name])}

\* the requests that name a tool bound to the agent, in order
RECURSIVE BoundRequests(_, _, _)
BoundRequests(agent_name, requests, i) ==
    IF i > Len(requests) THEN <<>>
    ELSE (IF requests[i].name \in ToolsOf(agent_name) THEN <<requests[i]>> ELSE <<>>)
         \o BoundRequests(agent_name, requests, i + 1)

(***************************************************************************)
(* C11: a call of a bound tool that times out is recorded in the turn's    *)
(* record as an error entry.  (Fails: execute_python and http_request      *)
(* return the timeout message, which is recorded as the call's result.)    *)
(***************************************************************************)
C11_TimeoutIsFailure ==
    [][WORKING =>
        LET req == BoundRequests(node, Last(trace').requests, 1)
            rec == Last(intermediate_results')
        IN  \A i \in 1..Len(req) :
              req[i].env = "timeout" =>
                /\ Len(rec.tool_results) >= i
                /\ rec.tool_results[i].tool = req[i].name
                /\ "error" \in DOMAIN rec.tool_results[i]]_vars

(***************************************************************************)
(* C12: without OPENAI_API_KEY, validate returns the list naming the key,  *)
(* run_agent returns the message naming it, and no turn ran, no tool was   *)
(* invoked and nothing was raised.                                         *)
(***************************************************************************)
C12_MissingKeyStopsBeforeLoop ==
    (openai_api_key = "" /\ status # "init") =>
        /\ validate(openai_api_key) = <<"OPENAI_API_KEY">>
        /\ status = "returned"
        /\ returned = MissingConfiguration
        /\ error = ""
        /\ trace = <<>>
        /\ invoked = <<>>
        /\ fs_ops = <<>>
        /\ ~HasState

C12_Witness == openai_api_key = "" /\ status = "returned"

(***************************************************************************)
(* C13: the turns alternate, supervisor first: every agent turn comes      *)
(* right after a supervisor turn that returned exactly that agent, and     *)
(* right before a supervisor turn (the next turn to run, when the agent    *)
(* turn is the last so far); no two agent turns are adjacent.              *)
(***************************************************************************)
C13_TurnsAlternate ==
    /\ Len(trace) > 0 => trace[1].node = SUPERVISOR
    /\ \A i \in 1..Len(trace) :
         trace[i].node \in AGENT_NODES =>
            /\ i > 1
            /\ RouterReturned(trace, i - 1)
            /\ trace[i - 1].next = trace[i].node
            /\ IF i < Len(trace)
               THEN trace[i + 1].node = SUPERVISOR
               ELSE ROUTING
    /\ \A i \in 1..Len(trace) :
         (RouterReturned(trace, i) /\ trace[i].next \in AGENT_NODES) =>
            IF i < Len(trace) THEN trace[i + 1].node = trace[i].next
            ELSE WORKING /\ node = trace[i].next

C13_Witness ==
    /\ Len(trace) = 5
    /\ trace[2].node = "research"
    /\ trace[4].node = "code"

(***************************************************************************)
(* C14: a supervisor turn that returns leaves the reasoning of its         *)
(* decision in task_context under last_routing_reason, whatever was there  *)
(* before, and an agent turn leaves task_context as it is, so that is the  *)
(* value the following agent turn and supervisor turn are given.           *)
(***************************************************************************)
C14_ContextHoldsLastReason ==
    [][/\ (ROUTING /\ status' # "raised") =>
            /\ "last_routing_reason" \in DOMAIN task_context'
            /\ task_context'.last_routing_reason = decision'.reasoning
            /\ next_agent' = decision'.next_agent
       /\ WORKING => task_context' = task_context]_vars

C14_Witness ==
    /\ Len(trace) = 3
    /\ WORKING
    /\ "last_routing_reason" \in DOMAIN task_context
    /\ task_context.last_routing_reason = "r2"
    /\ decision.reasoning = "r2"

(***************************************************************************)
(* C15, as claimed: the first supervisor turn never returns FINISH, and no *)
(* request is DONE with zero agent turns.  (Fails: nothing in the code     *)
(* keeps the routing model from answering FINISH at once.)                 *)
(***************************************************************************)
C15_FirstTurnNeverFinish ==
    /\ (Len(trace) >= 1 /\ RouterReturned(trace, 1)) => trace[1].next \in AGENT_NODES
    /\ DONE => AgentTurns(trace) >= 1

(***************************************************************************)
(* C15, amended: the first supervisor turn that returns names an agent or  *)
(* FINISH, and a request is DONE with zero agent turns exactly when that   *)
(* first turn returned FINISH.                                             *)
(***************************************************************************)
C15_FirstTurnMayFinish ==
    /\ (Len(trace) >= 1 /\ RouterReturned(trace, 1)) => trace[1].next \in AGENTS
    /\ (DONE /\ AgentTurns(trace) = 0) <=>
          /\ Len(trace) = 1
          /\ RouterReturned(trace, 1)
          /\ trace[1].next = FINISH

C15_Witness == DONE /\ Len(trace) = 1 /\ Len(messages) = 1

(***************************************************************************)
(* C16: an agent turn appends a record to intermediate_results exactly     *)
(* when it invoked at least one tool, and every record has at least one    *)
(* tool result.  (Fails: a turn whose requested names are all unbound      *)
(* appends a record with no tool results.)                                 *)
(***************************************************************************)
C16_RecordIffInvoked ==
    [][WORKING =>
        /\ Len(intermediate_results') = Len(intermediate_results) + 1
             <=> Len(invoked') > Len(invoked)
        /\ Len(intermediate_results') \in
             {Len(intermediate_results), Len(intermediate_results) + 1}
        /\ \A k \in 1..Len(intermediate_results') :
             Len(intermediate_results'[k].tool_results) >= 1]_vars

(***************************************************************************)
(* C17: an agent turn whose model asked for no tool appends exactly one    *)
(* message, the model's answer, and changes nothing else of the shared     *)
(* state: the returned dictionary has the messages key only.               *)
(***************************************************************************)
C17_PlainAnswerOnlyAppends ==
    [][(WORKING /\ Len(Last(trace').requests) = 0) =>
          /\ messages' = Append(messages, Last(messages'))
          /\ Last(messages').type = "ai"
          /\ Last(messages').content = Text("answer")
          /\ DOMAIN final_state'.output = {"messages"}
          /\ intermediate_results' = intermediate_results
          /\ next_agent' = next_agent
          /\ task_context' = task_context]_vars

C17_Witness ==
    /\ Len(trace) = 4
    /\ Last(trace).node \in AGENT_NODES
    /\ Len(Last(trace).requests) = 0
    /\ Len(intermediate_results) = 1
    /\ Len(messages) = 3

(***************************************************************************)
(* C18: the tools an agent turn invokes are exactly the requested calls    *)
(* that name a tool bound to that agent, each invoked once with the tool   *)
(* of the requested name; a call naming any other tool invokes nothing,    *)
(* and only the files agent performs file-system operations.               *)
(***************************************************************************)
C18_OnlyBoundToolsRun ==
    [][WORKING =>
        LET req == BoundRequests(node, Last(trace').requests, 1)
        IN  /\ invoked' = invoked \o
                  [k \in 1..Len(req) |->
                      [agent |-> node, tool |-> req[k].name, args |-> req[k].args]]
            /\ \A k \in 1..Len(invoked') :
                  invoked'[k].tool \in ToolsOf(invoked'[k].agent)
            /\ node # "files" => fs_ops' = fs_ops]_vars

C18_Witness ==
    /\ Len(trace) = 2
    /\ trace[2].node = "code"
    /\ Len(trace[2].requests) = 2
    /\ trace[2].requests[1].name = "write_file"
    /\ trace[2].requests[2].name = "execute_python"
    /\ Len(invoked) = 1
    /\ fs_ops = <<>>

\* the supervisor turns among the turns so far
RouterTurns(tr) == Cardinality({i \in 1..Len(tr) : tr[i].node = SUPERVISOR})

C20_ContextKeysKept ==
    [][/\ DOMAIN task_context \subseteq DOMAIN task_context'
       /\ HasState' =>
            /\ "original_query" \in DOMAIN task_context'
            /\ Text(task_context'.original_query) = messages'[1].content
            /\ messages'[1].type = "human"]_vars

C20_Witness ==
    /\ Len(trace) = 5
    /\ DOMAIN task_context = {"original_query", "last_routing_reason"}
    /\ task_context.original_query = "write /x"

\* the path, made absolute, is the allowed directory or lies below it
InsideRoot(path) ==
    LET abs_path == abspath(path)
        allowed == abspath(allowed_file_path)
    IN  abs_path = allowed \/ StartsWith(abs_path, allowed \o <<"/">>)

(***************************************************************************)
(* C21: the file tools read, write or list only paths that are the allowed *)
(* directory or lie below it.  (Fails: a sibling whose name begins with    *)
(* the directory's name passes the startswith test.)                       *)
(***************************************************************************)
C21_FileOpsConfined ==
    \A k \in 1..Len(fs_ops) : InsideRoot(fs_ops[k].path)

(***************************************************************************)
(* C22: the history has one message more than agent turns were completed:  *)
(* the request's message, then one message per agent turn, the answer or   *)
(* the one summary with a line per tool result; supervisor turns add none. *)
(***************************************************************************)
C22_OneMessagePerAgentTurn ==
    HasState =>
        /\ Len(messages) = 1 + AgentTurns(trace)
        /\ messages[1].type = "human"
        /\ \A i \in 2..Len(messages) : messages[i].type = "ai"
        /\ (Len(trace) > 0 /\ Last(trace).node \in AGENT_NODES
              /\ Len(Last(trace).requests) > 0) =>
                 Len(Last(messages).content) =
                     1 + Len(Last(intermediate_results).tool_results)

C22_Witness ==
    /\ Len(trace) = 4
    /\ Len(messages) = 3
    /\ Len(Last(trace).requests) = 2
    /\ Len(Last(messages).content) = 3

(***************************************************************************)
(* C23: a supervisor turn leaves messages and intermediate_results as they *)
(* were, whatever it decided; the dictionary it returns has the keys       *)
(* next_agent and task_context only, and it invokes no tool.               *)
(***************************************************************************)
C23_RouterKeepsHistoryAndResults ==
    [][ROUTING =>
          /\ messages' = messages
          /\ intermediate_results' = intermediate_results
          /\ invoked' = invoked
          /\ fs_ops' = fs_ops
          /\ status' # "raised" =>
                /\ final_state'.node = SUPERVISOR
                /\ DOMAIN final_state'.output = {"next_agent", "task_context"}]_vars

C23_Witness ==
    /\ DONE
    /\ Len(trace) = 3
    /\ Len(messages) = 2
    /\ Len(intermediate_results) = 1

====
